---- MODULE Spec2Model ----
(***************************************************************************)
(* Model of cmd/server/handler.go: the serve orchestration of the two HTTP *)
(* interfaces (admin, public).  The coordinator (RunServeAdmin,            *)
(* RunServePublic, RunServeAll) is one process; every `go serve(...)` is a *)
(* process of its own, and the signal goroutine that graceful.Graceful     *)
(* starts for a task is a third kind of process.  Logger.Fatal ends the    *)
(* whole process with exit code 1 and runs no deferred call.               *)
(***************************************************************************)
EXTENDS Integers, Sequences, FiniteSets, TLC

\* Largest number of middlewares the service locator supplies.
MaxMw == 1

\* ------------------------------------------------------------------------
\* Values of the configuration and the environment

AdminInterface == "admin"
PublicInterface == "public"
Interfaces == {AdminInterface, PublicInterface}

Modes == {"admin", "public", "all"}
DSNs == {"memory", "postgres://db"}
Addresses == {"unix:/tmp/hydra.sock", ":4444"}
ZitiServices == {"", "svc-x"}

\* The interfaces a run mode serves, in the order of its `go serve` statements.
ServedSeq(mode) ==
    CASE mode = "admin" -> <<AdminInterface>>
      [] mode = "public" -> <<PublicInterface>>
      [] mode = "all" -> <<PublicInterface, AdminInterface>>

Served(mode) == {ServedSeq(mode)[k] : k \in 1..Len(ServedSeq(mode))}

\* config.ServeInterface.Key: the interface's configuration prefix, a dot, the suffix.
Key(iface, suffix) ==
    (IF iface = AdminInterface THEN "serve.admin" ELSE "serve.public") \o "." \o suffix

\* networkx.AddressIsUnixSocket: the address starts with "unix:".
AddressIsUnixSocket(address) ==
    Len(address) >= 5 /\ SubSeq(address, 1, 5) = "unix:"

\* A middleware of a negroni chain: its kind and, for a service-locator
\* middleware, its registration index.
Mw(kind) == <<kind, 0>>

\* sl.HTTPMiddlewares(): the n registered middlewares, in registration order.
HTTPMiddlewares(n) == [k \in 1..n |-> <<"sl", k>>]

VARIABLES
    cfg,          \* configuration, flags and environment of the run
    cpc,          \* position of the coordinator (the cobra run function)
    runResult,    \* what the run function returned: "none", "nil", "err"
    exited,       \* the process has ended
    exitCode,     \* its exit code, once exited
    fatalCause,   \* what Logger.Fatal logged, "" if nothing
    wg,           \* the sync.WaitGroup counter
    routers,      \* interfaces whose router setup has built
    mw,           \* the negroni chain of each interface (adminmw, publicmw)
    registered,   \* routers registered with the PrometheusManager
    spawned,      \* the interface of every `go serve` executed, in order
    pc,           \* position of each serving task
    handler,      \* the handler of the task's http.Server
    tlsConfig,    \* the task's tlsConfig is not nil
    listeners,    \* the listeners the task has bound, in order
    factoryCalls, \* calls of ziti ListenWithOptions made by the task
    bindAttempts, \* calls that try to make a listener (ziti or MakeListener)
    serveMode,    \* "none", "raw" (Serve on a unix socket), "tls", "plain"
    warned,       \* the task logged "HTTPS is disabled"
    err,          \* the error the task's Graceful call returned, "" if none
    hstate,       \* the signal goroutine of graceful.Graceful, per task
    inShutdown    \* srv.Shutdown has been called on the task's server

coordVars == <<cpc, runResult, wg, routers, mw, registered, spawned>>
procVars == <<exited, exitCode, fatalCause>>
taskVars == <<pc, handler, tlsConfig, listeners, factoryCalls, bindAttempts, serveMode, warned, err,
              hstate, inShutdown>>
vars == <<cfg, coordVars, procVars, taskVars>>

Configs ==
    [mode : Modes,
     dsn : DSNs,
     zitified : BOOLEAN,
     zitiService : ZitiServices,
     address : [Interfaces -> Addresses],
     tlsEnabled : [Interfaces -> BOOLEAN],
     tracerLoaded : BOOLEAN,
     nMw : 0..MaxMw]

Init ==
    /\ cfg \in Configs
    /\ cpc = "new"
    /\ runResult = "none"
    /\ exited = FALSE
    /\ exitCode = 0
    /\ fatalCause = ""
    /\ wg = 0
    /\ routers = {}
    /\ mw = [i \in Interfaces |-> <<>>]
    /\ registered = {}
    /\ spawned = <<>>
    /\ pc = [i \in Interfaces |-> "notspawned"]
    /\ handler = [i \in Interfaces |-> <<>>]
    /\ tlsConfig = [i \in Interfaces |-> FALSE]
    /\ listeners = [i \in Interfaces |-> <<>>]
    /\ factoryCalls = [i \in Interfaces |-> 0]
    /\ bindAttempts = [i \in Interfaces |-> 0]
    /\ serveMode = [i \in Interfaces |-> "none"]
    /\ warned = [i \in Interfaces |-> FALSE]
    /\ err = [i \in Interfaces |-> ""]
    /\ hstate = [i \in Interfaces |-> "none"]
    /\ inShutdown = [i \in Interfaces |-> FALSE]

\* Logger.Fatal / Fatalf: log the cause and os.Exit(1).
FatalExit(cause) ==
    /\ exited' = TRUE
    /\ exitCode' = 1
    /\ fatalCause' = cause

\* ------------------------------------------------------------------------
\* The coordinator

\* Variant of ChecksDSN: RunServeAll calls isDSNAllowed too.
ChecksDSNAlways(mode) == TRUE

\* The run functions that call isDSNAllowed after driver.New: RunServeAdmin
\* and RunServePublic, not RunServeAll.
ChecksDSN(mode) == mode \in {"admin", "public"}

\* driver.New: on an error the run function returns it.
DriverNew ==
    /\ ~exited /\ cpc = "new"
    /\ \/ /\ cpc' = IF ChecksDSN(cfg.mode) THEN "dsn" ELSE "setup"
          /\ UNCHANGED <<runResult, procVars>>
       \/ /\ cpc' = "returned"
          /\ runResult' = "err"
          /\ exited' = TRUE
          /\ exitCode' = 1
          /\ UNCHANGED fatalCause
    /\ UNCHANGED <<cfg, wg, routers, mw, registered, spawned, taskVars>>

\* isDSNAllowed, called by RunServeAdmin and RunServePublic only.
IsDSNAllowed ==
    /\ ~exited /\ cpc = "dsn"
    /\ IF cfg.dsn = "memory"
         THEN FatalExit("dsn memory") /\ UNCHANGED cpc
         ELSE cpc' = "setup" /\ UNCHANGED procVars
    /\ UNCHANGED <<cfg, runResult, wg, routers, mw, registered, spawned, taskVars>>

\* The chain setup leaves in adminmw and in publicmw: negroni.New(), then
\* Use(logger), Use(PrometheusManager), Use(metrics).
SetupChain == <<Mw("accesslog"), Mw("prometheus"), Mw("metrics")>>

\* setup: maxprocs.Set may fail fatally when enabled; otherwise both routers
\* and both chains are built.
Setup ==
    /\ ~exited /\ cpc = "setup"
    /\ \/ /\ routers' = Interfaces
          /\ mw' = [i \in Interfaces |-> SetupChain]
          /\ cpc' = "register"
          /\ UNCHANGED procVars
       \/ /\ FatalExit("Couldn't set GOMAXPROCS")
          /\ UNCHANGED <<cpc, routers, mw>>
    /\ UNCHANGED <<cfg, runResult, wg, registered, spawned, taskVars>>

\* Variant of RegisteredRouters: RunServePublic registers the admin router,
\* as RunServeAdmin does.
RegisteredRoutersAdminOnly(mode) ==
    IF mode = "all" THEN Interfaces ELSE {AdminInterface}

\* The routers the run function registers with the PrometheusManager.
RegisteredRouters(mode) == Served(mode)

\* d.PrometheusManager().RegisterRouter(...) of the run function.
RegisterRouter ==
    /\ ~exited /\ cpc = "register"
    /\ registered' = RegisteredRouters(cfg.mode)
    /\ cpc' = "wgadd"
    /\ UNCHANGED <<cfg, runResult, wg, routers, mw, spawned, procVars, taskVars>>

\* Variant of WgCount: RunServeAll announces one task, as the standalone
\* run functions do.
WgCountOne(mode) == 1

\* The number of tasks the run function announces to the WaitGroup.
WgCount(mode) == Len(ServedSeq(mode))

\* wg.Add(n)
WgAdd ==
    /\ ~exited /\ cpc = "wgadd"
    /\ wg' = wg + WgCount(cfg.mode)
    /\ cpc' = "spawn1"
    /\ UNCHANGED <<cfg, runResult, routers, mw, registered, spawned, procVars, taskVars>>

\* Variant of EnhanceMiddleware: the service-locator middlewares are added
\* before the gate.
EnhanceMiddlewareGateLate(n, address, nSl) ==
    n \o HTTPMiddlewares(nSl)
      \o (IF ~AddressIsUnixSocket(address) THEN <<Mw("gate")>> ELSE <<>>)
      \o <<Mw("router")>>

\* EnhanceMiddleware: append to chain n the gate unless the address is a unix
\* socket, the service-locator middlewares, and the router.  The CORS
\* middleware it constructs is discarded.
EnhanceMiddleware(n, address, nSl) ==
    n \o (IF ~AddressIsUnixSocket(address) THEN <<Mw("gate")>> ELSE <<>>)
      \o HTTPMiddlewares(nSl)
      \o <<Mw("router")>>

\* go serve(..., iface, EnhanceMiddleware(...), ListenOn(iface), ...): the
\* arguments are evaluated by the coordinator, the task starts at `defer wg.Done()`.
GoServe(k) ==
    LET seq == ServedSeq(cfg.mode)
        i == seq[k]
        h == EnhanceMiddleware(mw[i], cfg.address[i], cfg.nMw)
    IN  /\ mw' = [mw EXCEPT ![i] = h]
        /\ handler' = [handler EXCEPT ![i] = h]
        /\ pc' = [pc EXCEPT ![i] = "init"]
        /\ spawned' = Append(spawned, i)
        /\ cpc' = IF k < Len(seq) THEN "spawn2" ELSE "wait"

Spawn ==
    /\ ~exited /\ cpc \in {"spawn1", "spawn2"}
    /\ GoServe(IF cpc = "spawn1" THEN 1 ELSE 2)
    /\ UNCHANGED <<cfg, runResult, wg, routers, registered, procVars, tlsConfig, listeners,
                   factoryCalls, bindAttempts, serveMode, warned, err, hstate, inShutdown>>

\* wg.Wait() returns when the counter is zero.
WaitDone(n) == n = 0

\* wg.Wait(); return nil
WgWait ==
    /\ ~exited /\ cpc = "wait"
    /\ WaitDone(wg)
    /\ cpc' = "returned"
    /\ runResult' = "nil"
    /\ exited' = TRUE
    /\ exitCode' = 0
    /\ UNCHANGED <<cfg, fatalCause, wg, routers, mw, registered, spawned, taskVars>>

\* ------------------------------------------------------------------------
\* A serving task: serve(ctx, d, cmd, wg, iface, handler, address, permission)

\* Variant of TraceHandler: the handler is wrapped whether or not a tracer is loaded.
TraceHandlerAlways(loaded, h) == <<Mw("trace")>> \o h

\* if tracer.IsLoaded() { handler = otelx.TraceHandler(handler) }
TraceHandler(loaded, h) == IF loaded THEN <<Mw("trace")>> \o h ELSE h

TraceWrap(i) ==
    /\ ~exited /\ pc[i] = "init"
    /\ handler' = [handler EXCEPT ![i] = TraceHandler(cfg.tracerLoaded, handler[i])]
    /\ pc' = [pc EXCEPT ![i] = "tls"]
    /\ UNCHANGED <<cfg, coordVars, procVars, tlsConfig, listeners, factoryCalls, bindAttempts, serveMode,
                   warned, err, hstate, inShutdown>>

\* GetOrCreateTLSCertificate: returns the certificates, or ends the process
\* when none can be obtained.
GetOrCreateTLSCertificate(i) ==
    \/ /\ tlsConfig' = [tlsConfig EXCEPT ![i] = TRUE]
       /\ pc' = [pc EXCEPT ![i] = "graceful"]
       /\ UNCHANGED procVars
    \/ /\ FatalExit("TLSError")
       /\ UNCHANGED <<tlsConfig, pc>>

\* tlsConfig is set only when TLS is enabled for the interface; then the
\* http.Server is built with the handler and tlsConfig.
TLSSetup(i) ==
    /\ ~exited /\ pc[i] = "tls"
    /\ IF cfg.tlsEnabled[i]
         THEN GetOrCreateTLSCertificate(i)
         ELSE /\ pc' = [pc EXCEPT ![i] = "graceful"]
              /\ UNCHANGED <<tlsConfig, procVars>>
    /\ UNCHANGED <<cfg, coordVars, handler, listeners, factoryCalls, bindAttempts, serveMode, warned, err,
                   hstate, inShutdown>>

\* graceful.Graceful(start, shutdown): starts the goroutine that waits for
\* SIGINT/SIGTERM, then calls start.
EnterGraceful(i) ==
    /\ ~exited /\ pc[i] = "graceful"
    /\ hstate' = [hstate EXCEPT ![i] = "waiting"]
    /\ pc' = [pc EXCEPT ![i] = "start"]
    /\ UNCHANGED <<cfg, coordVars, procVars, handler, tlsConfig, listeners, factoryCalls, bindAttempts,
                   serveMode, warned, err, inShutdown>>

\* Variant of UseZiti: the interface is not looked at.
UseZitiAnyInterface(i) == cfg.zitified

\* The condition under which serve takes the ziti listener.
UseZiti(i) == cfg.zitified /\ Key(i, "prefix") = "serve.admin.prefix"

\* start returned the error e: no listener, Graceful returns e.
StartFails(i, e) ==
    /\ err' = [err EXCEPT ![i] = e]
    /\ pc' = [pc EXCEPT ![i] = "failed"]

\* A listener of the given kind was bound and assigned to `listener`.
Bind(i, kind) ==
    /\ listeners' = [listeners EXCEPT ![i] = Append(@, kind)]
    /\ pc' = [pc EXCEPT ![i] = "bound"]

\* ziti.NewContext().ListenWithOptions(zitiService, &options)
ZitiListen(i) ==
    /\ factoryCalls' = [factoryCalls EXCEPT ![i] = @ + 1]
    /\ bindAttempts' = [bindAttempts EXCEPT ![i] = @ + 1]
    /\ \/ Bind(i, "OverlayTunnel") /\ UNCHANGED err
       \/ StartFails(i, "TransportError") /\ UNCHANGED listeners

\* networkx.MakeListener(address, permission): a unix socket with the
\* permission applied when the address is a unix socket, else a TCP listener.
MakeListener(i, address) ==
    /\ UNCHANGED factoryCalls
    /\ bindAttempts' = [bindAttempts EXCEPT ![i] = @ + 1]
    /\ IF AddressIsUnixSocket(address)
         THEN \/ Bind(i, "UnixSocket") /\ UNCHANGED err
              \/ \E e \in {"BindError", "PermissionError"} :
                    StartFails(i, e) /\ UNCHANGED listeners
         ELSE \/ Bind(i, "TCP") /\ UNCHANGED err
              \/ StartFails(i, "BindError") /\ UNCHANGED listeners

\* Variant of ResolveListener: the else is missing, so after the ziti
\* listener the ordinary listener is bound as well.
ResolveListenerNoElse(i) ==
    IF UseZiti(i)
      THEN IF cfg.zitiService = ""
             THEN StartFails(i, "ConfigurationError") /\ UNCHANGED <<listeners, factoryCalls, bindAttempts>>
             ELSE /\ factoryCalls' = [factoryCalls EXCEPT ![i] = @ + 1]
                  /\ bindAttempts' = [bindAttempts EXCEPT ![i] = @ + 2]
                  /\ listeners' = [listeners EXCEPT ![i] =
                        @ \o <<"OverlayTunnel",
                               IF AddressIsUnixSocket(cfg.address[i]) THEN "UnixSocket" ELSE "TCP">>]
                  /\ pc' = [pc EXCEPT ![i] = "bound"]
                  /\ UNCHANGED err
      ELSE MakeListener(i, cfg.address[i])

\* Variant of ResolveListener: with ZITI_SERVICE unset it falls back to the
\* ordinary listener instead of returning the error.
ResolveListenerFallback(i) ==
    IF UseZiti(i) /\ cfg.zitiService # ""
      THEN ZitiListen(i)
      ELSE MakeListener(i, cfg.address[i])

\* The first part of start: the listener is resolved (lines 355-389).
ResolveListener(i) ==
    IF UseZiti(i)
      THEN IF cfg.zitiService = ""
             THEN StartFails(i, "ConfigurationError") /\ UNCHANGED <<listeners, factoryCalls, bindAttempts>>
             ELSE ZitiListen(i)
      ELSE MakeListener(i, cfg.address[i])

Resolve(i) ==
    /\ ~exited /\ pc[i] = "start"
    /\ ResolveListener(i)
    /\ UNCHANGED <<cfg, coordVars, procVars, handler, tlsConfig, serveMode, warned, hstate,
                   inShutdown>>

\* Variant of ServeModeOf: the tlsConfig test comes before the unix socket test.
ServeModeTLSFirst(address, hasTLS) ==
    IF hasTLS THEN "tls"
    ELSE IF AddressIsUnixSocket(address) THEN "raw"
    ELSE "plain"

\* The serve call start ends with: Serve on a unix socket address, ServeTLS
\* with a tlsConfig, Serve otherwise.
ServeModeOf(address, hasTLS) ==
    IF AddressIsUnixSocket(address) THEN "raw"
    ELSE IF hasTLS THEN "tls"
    ELSE "plain"

\* Variant of WarnsHTTPS: the interface is not looked at.
WarnsHTTPSAnyInterface(i, mode) == mode = "plain"

\* The "HTTPS is disabled" warning is logged before the plain Serve of Public.
WarnsHTTPS(i, mode) == mode = "plain" /\ i = PublicInterface

\* The second part of start (lines 392-404).  A server whose Shutdown was
\* already called returns http.ErrServerClosed from Serve at once.
Dispatch(i) ==
    /\ ~exited /\ pc[i] = "bound"
    /\ LET m == ServeModeOf(cfg.address[i], tlsConfig[i])
       IN  /\ serveMode' = [serveMode EXCEPT ![i] = m]
           /\ warned' = [warned EXCEPT ![i] = WarnsHTTPS(i, m)]
    /\ pc' = [pc EXCEPT ![i] = IF inShutdown[i] THEN "shuttingdown" ELSE "serving"]
    /\ UNCHANGED <<cfg, coordVars, procVars, handler, tlsConfig, listeners, factoryCalls, bindAttempts, err,
                   hstate, inShutdown>>

\* Variant of ServeError: the error of Serve is dropped and serve returns as
\* after a shutdown.
ServeErrorTerminates(i) ==
    /\ ~exited /\ pc[i] = "serving"
    /\ pc' = [pc EXCEPT ![i] = "terminated"]
    /\ wg' = wg - 1
    /\ UNCHANGED <<cfg, cpc, runResult, routers, mw, registered, spawned, procVars, handler,
                   tlsConfig, listeners, factoryCalls, bindAttempts, serveMode, warned, err,
                   hstate, inShutdown>>

\* Serve returns an error other than http.ErrServerClosed (the listener's
\* Accept failed): start returns it.
ServeError(i) ==
    /\ ~exited /\ pc[i] = "serving"
    /\ StartFails(i, "ServeError")
    /\ UNCHANGED <<cfg, coordVars, procVars, handler, tlsConfig, listeners, factoryCalls, bindAttempts,
                   serveMode, warned, hstate, inShutdown>>

\* SIGINT or SIGTERM reaches every goroutine that waits for it.  A goroutine
\* that has already taken a signal ignores later ones; a signal that arrives
\* while no Graceful call has registered is left to the runtime's default and
\* is not part of the model.
Signal ==
    /\ ~exited
    /\ \E i \in Interfaces : hstate[i] = "waiting"
    /\ hstate' = [i \in Interfaces |-> IF hstate[i] = "waiting" THEN "signalled" ELSE hstate[i]]
    /\ UNCHANGED <<cfg, coordVars, procVars, pc, handler, tlsConfig, listeners, factoryCalls, bindAttempts,
                   serveMode, warned, err, inShutdown>>

\* The signal goroutine calls srv.Shutdown: a running Serve returns
\* http.ErrServerClosed and the drain begins; a server that is not serving
\* has nothing to drain and Shutdown returns nil.
ShutdownBegin(i) ==
    /\ ~exited /\ hstate[i] = "signalled"
    /\ inShutdown' = [inShutdown EXCEPT ![i] = TRUE]
    /\ IF pc[i] = "serving"
         THEN /\ pc' = [pc EXCEPT ![i] = "shuttingdown"]
              /\ hstate' = [hstate EXCEPT ![i] = "draining"]
         ELSE /\ hstate' = [hstate EXCEPT ![i] = "ok"]
              /\ UNCHANGED pc
    /\ UNCHANGED <<cfg, coordVars, procVars, handler, tlsConfig, listeners, factoryCalls, bindAttempts,
                   serveMode, warned, err>>

\* srv.Shutdown returns: nil, or the context's error when the drain timed out.
ShutdownEnd(i) ==
    /\ ~exited /\ hstate[i] = "draining"
    /\ \E r \in {"ok", "err"} : hstate' = [hstate EXCEPT ![i] = r]
    /\ UNCHANGED <<cfg, coordVars, procVars, pc, handler, tlsConfig, listeners, factoryCalls, bindAttempts,
                   serveMode, warned, err, inShutdown>>

\* Variant of GracefulResult: the error of Shutdown is dropped (logged only).
GracefulResultNil(h) == ""

\* What Graceful returns after start returned http.ErrServerClosed: the
\* value the signal goroutine sent, Shutdown's result.
GracefulResult(h) == IF h = "err" THEN "ShutdownError" ELSE ""

\* Variant of WgDone: serve has no deferred wg.Done().
WgDoneMissing(n) == n

\* wg.Done(), deferred: runs when serve returns.
WgDone(n) == n - 1

\* Graceful returns after a shutdown; with nil serve returns and the
\* deferred wg.Done() runs.
GracefulReturn(i) ==
    /\ ~exited /\ pc[i] = "shuttingdown" /\ hstate[i] \in {"ok", "err"}
    /\ LET e == GracefulResult(hstate[i])
       IN  IF e = ""
             THEN /\ pc' = [pc EXCEPT ![i] = "terminated"]
                  /\ wg' = WgDone(wg)
                  /\ UNCHANGED err
             ELSE /\ StartFails(i, e)
                  /\ UNCHANGED wg
    /\ UNCHANGED <<cfg, cpc, runResult, routers, mw, registered, spawned, procVars, handler, tlsConfig,
                   listeners, factoryCalls, bindAttempts, serveMode, warned, hstate, inShutdown>>

\* Variant of Fatal: the error is logged at error level and serve returns,
\* so the deferred wg.Done() runs.
FatalSwallowed(i) ==
    /\ ~exited /\ pc[i] = "failed"
    /\ pc' = [pc EXCEPT ![i] = "terminated"]
    /\ wg' = WgDone(wg)
    /\ UNCHANGED <<cfg, cpc, runResult, routers, mw, registered, spawned, procVars, handler,
                   tlsConfig, listeners, factoryCalls, bindAttempts, serveMode, warned, err, hstate,
                   inShutdown>>

\* Variant of Fatal: a failed start is retried instead of ending the process.
FatalRetries(i) ==
    /\ ~exited /\ pc[i] = "failed"
    /\ pc' = [pc EXCEPT ![i] = "start"]
    /\ err' = [err EXCEPT ![i] = ""]
    /\ UNCHANGED <<cfg, coordVars, procVars, handler, tlsConfig, listeners, factoryCalls,
                   bindAttempts, serveMode, warned, hstate, inShutdown>>

\* Variant of Fatal: before the exit the failing task stops the servers of
\* the other tasks.
FatalStopsSiblings(i) ==
    /\ ~exited /\ pc[i] = "failed"
    /\ FatalExit(err[i])
    /\ inShutdown' = [j \in Interfaces |-> IF j # i THEN TRUE ELSE inShutdown[j]]
    /\ pc' = [j \in Interfaces |->
                IF j # i /\ pc[j] = "serving" THEN "shuttingdown" ELSE pc[j]]
    /\ UNCHANGED <<cfg, coordVars, handler, tlsConfig, listeners, factoryCalls, bindAttempts,
                   serveMode, warned, err, hstate>>

\* if err := graceful.Graceful(...); err != nil { Logger.Fatal(...) }
Fatal(i) ==
    /\ ~exited /\ pc[i] = "failed"
    /\ FatalExit(err[i])
    /\ UNCHANGED <<cfg, coordVars, taskVars>>

\* ------------------------------------------------------------------------

Task(i) ==
    \/ TraceWrap(i)
    \/ TLSSetup(i)
    \/ EnterGraceful(i)
    \/ Resolve(i)
    \/ Dispatch(i)
    \/ ServeError(i)
    \/ ShutdownBegin(i)
    \/ ShutdownEnd(i)
    \/ GracefulReturn(i)
    \/ Fatal(i)

Next ==
    \/ DriverNew
    \/ IsDSNAllowed
    \/ Setup
    \/ RegisterRouter
    \/ WgAdd
    \/ Spawn
    \/ WgWait
    \/ Signal
    \/ \E i \in Interfaces : Task(i)

Spec == Init /\ [][Next]_vars

\* The steps of the goroutine that runs serve for interface i, the returns
\* of its calls included; ServeError is a failure of the listener, not a step
\* the scheduler owes.
TaskMain(i) ==
    \/ TraceWrap(i)
    \/ TLSSetup(i)
    \/ EnterGraceful(i)
    \/ Resolve(i)
    \/ Dispatch(i)
    \/ GracefulReturn(i)
    \/ Fatal(i)

\* The Go scheduler runs every runnable goroutine: the coordinator returns
\* from wg.Wait once the counter is zero, a task takes its next step, and the
\* signal goroutine calls srv.Shutdown, which returns by its drain timeout.
Fairness ==
    /\ WF_vars(WgWait)
    /\ \A i \in Interfaces :
          /\ WF_vars(TaskMain(i))
          /\ WF_vars(ShutdownBegin(i))
          /\ WF_vars(ShutdownEnd(i))

LiveSpec == Init /\ [][Next]_vars /\ Fairness

\* ------------------------------------------------------------------------
\* Properties

Spawned(i) == pc[i] # "notspawned"

\* The listener that serves interface i (the one its serve call was given).
ServingListener(i) == listeners[i][Len(listeners[i])]

\* The task of i has entered one of the serve calls.
HasServed(i) == serveMode[i] # "none"

\* C1: under RunServeAll exactly two serving tasks are spawned, one Public and
\* one Admin, and the run function returns nil only when both tasks have
\* terminated; it never returns while a task is still short of termination.
C1_JoinAll ==
    cfg.mode = "all" =>
        /\ Len(spawned) <= 2
        /\ (cpc = "wait" \/ runResult = "nil") =>
              /\ Len(spawned) = 2
              /\ {spawned[k] : k \in 1..Len(spawned)} = Interfaces
        /\ runResult = "nil" => \A i \in Interfaces : pc[i] = "terminated"

C1_Witness ==
    /\ cfg.mode = "all"
    /\ runResult = "nil"
    /\ spawned = <<PublicInterface, AdminInterface>>
    /\ \A i \in Interfaces : pc[i] = "terminated"

\* The transport mode the listen target and the tunnel flag call for: a
\* filesystem path gives a unix socket, else the tunnel flag on Admin gives
\* the overlay tunnel, else TCP.
ExpectedTransport(i) ==
    IF AddressIsUnixSocket(cfg.address[i]) THEN "UnixSocket"
    ELSE IF cfg.zitified /\ i = AdminInterface THEN "OverlayTunnel"
    ELSE "TCP"

\* C2: every listener a serving task binds has the transport mode its listen
\* target calls for; a filesystem-path target yields a UnixSocket listener
\* also for Admin with the tunnel flag set.
C2_TransportMatchesTarget ==
    \A i \in Interfaces :
        \A k \in 1..Len(listeners[i]) : listeners[i][k] = ExpectedTransport(i)

\* C3: for every served interface the reject-insecure-request gate is in the
\* pipeline iff the listener that serves it is not a UnixSocket listener.
C3_GateIffNotUnix ==
    \A i \in Interfaces :
        HasServed(i) =>
            ((\E k \in 1..Len(handler[i]) : handler[i][k] = Mw("gate"))
                <=> ServingListener(i) # "UnixSocket")

\* The positions of middleware m in chain h.
Positions(h, m) == {k \in 1..Len(h) : h[k] = m}

\* Every occurrence of a in h comes before every occurrence of b.
Before(h, a, b) == \A ka \in Positions(h, a) : \A kb \in Positions(h, b) : ka < kb

SlMws == {<<"sl", k>> : k \in 1..cfg.nMw}

\* The gate is in the chain exactly when the listen address is not a unix socket.
GateAsConfigured(i) ==
    (Positions(mw[i], Mw("gate")) # {}) <=> ~AddressIsUnixSocket(cfg.address[i])

\* The service-locator middlewares are all in the chain, once each, in
\* registration order.
SlInOrder(h) ==
    /\ \A k \in 1..cfg.nMw : Cardinality(Positions(h, <<"sl", k>>)) = 1
    /\ \A k \in 1..cfg.nMw : \A l \in 1..cfg.nMw :
          k < l => Before(h, <<"sl", k>>, <<"sl", l>>)

C5_UnsetServiceNoListener ==
    (cfg.zitified /\ cfg.zitiService = "") =>
        /\ listeners[AdminInterface] = <<>>
        /\ factoryCalls[AdminInterface] = 0
        /\ ~HasServed(AdminInterface)
        /\ pc[AdminInterface] \in {"notspawned", "init", "tls", "graceful", "start", "failed"}
        /\ pc[AdminInterface] = "failed" => err[AdminInterface] = "ConfigurationError"

C5_Witness ==
    /\ cfg.zitified /\ cfg.zitiService = ""
    /\ AddressIsUnixSocket(cfg.address[AdminInterface])
    /\ exited /\ exitCode = 1 /\ fatalCause = "ConfigurationError"
    /\ pc[AdminInterface] = "failed"
    /\ listeners[AdminInterface] = <<>>

\* C6: the Public interface never has an OverlayTunnel listener and the
\* listener factory is never called for it, whatever the flag and environment.
C6_TunnelAdminOnly ==
    /\ factoryCalls[PublicInterface] = 0
    /\ \A k \in 1..Len(listeners[PublicInterface]) :
          listeners[PublicInterface][k] # "OverlayTunnel"

C6_Witness ==
    /\ cfg.zitified /\ cfg.zitiService # ""
    /\ pc[PublicInterface] = "serving"
    /\ listeners[PublicInterface] = <<"TCP">>
    /\ listeners[AdminInterface] = <<"OverlayTunnel">>

\* C7: no error of a serving task is swallowed: a task whose Graceful call
\* returned an error stays failed until Logger.Fatal ends the process with
\* exit code 1, a fatal log always comes with exit code 1, and the run
\* function returns nil (exit code 0) only when every spawned task has
\* terminated without an error.
C7_NoErrorSwallowed ==
    /\ \A i \in Interfaces : err[i] # "" <=> pc[i] = "failed"
    /\ fatalCause # "" => exited /\ exitCode = 1 /\ runResult = "none"
    /\ (exited /\ exitCode = 0) <=> runResult = "nil"
    /\ runResult = "nil" =>
          /\ fatalCause = ""
          /\ \A i \in Served(cfg.mode) : pc[i] = "terminated" /\ err[i] = ""

C7_Witness ==
    /\ cfg.mode = "all"
    /\ pc[PublicInterface] = "terminated"
    /\ pc[AdminInterface] = "failed" /\ err[AdminInterface] = "BindError"
    /\ exited /\ exitCode = 1 /\ fatalCause = "BindError"

\* C8: the "DSN is memory" guard fires exactly in the standalone modes, and
\* there before setup has run, before a task is spawned and before a listener
\* is bound; RunServeAll with DSN "memory" never fails for that reason.
C8_DSNGuardStandaloneOnly ==
    /\ fatalCause = "dsn memory" =>
          /\ cfg.mode \in {"admin", "public"} /\ cfg.dsn = "memory"
          /\ routers = {} /\ spawned = <<>> /\ registered = {}
          /\ \A i \in Interfaces : mw[i] = <<>> /\ listeners[i] = <<>> /\ ~Spawned(i)
    /\ (cfg.mode \in {"admin", "public"} /\ cfg.dsn = "memory") =>
          /\ cpc \in {"new", "dsn", "returned"}
          /\ cpc = "returned" => runResult = "err"
          /\ (exited /\ runResult = "none") => fatalCause = "dsn memory"
    /\ cfg.mode = "all" => cpc # "dsn" /\ fatalCause # "dsn memory"

C8_Witness ==
    /\ cfg.mode = "admin" /\ cfg.dsn = "memory"
    /\ exited /\ exitCode = 1 /\ fatalCause = "dsn memory"

C8_WitnessAll ==
    /\ cfg.mode = "all" /\ cfg.dsn = "memory"
    /\ spawned = <<PublicInterface, AdminInterface>>
    /\ \A i \in Interfaces : pc[i] = "serving"

\* The run function is past its RegisterRouter calls.
PastRegister == cpc \in {"wgadd", "spawn1", "spawn2", "wait"} \/ runResult = "nil"

\* C9 as stated: in every run mode both routers and both pipelines are built
\* and both routers are registered with the metrics registry.
C9_BothRegistered ==
    PastRegister =>
        /\ routers = Interfaces
        /\ \A i \in Interfaces : mw[i] # <<>>
        /\ registered = Interfaces

\* C9, amended: in every run mode setup builds both routers and the chain
\* (access log, Prometheus manager, metrics collector) of both interfaces;
\* only the routers of the served interfaces are registered with the metrics
\* registry, and only their chains get the gate, the service-locator
\* middlewares and the router.
C9_BothBuiltServedRegistered ==
    PastRegister =>
        /\ routers = Interfaces
        /\ \A i \in Interfaces :
              /\ Len(mw[i]) >= 3
              /\ SubSeq(mw[i], 1, 3) = <<Mw("accesslog"), Mw("prometheus"), Mw("metrics")>>
              /\ i \notin Served(cfg.mode) => Len(mw[i]) = 3 /\ ~Spawned(i)
        /\ registered = Served(cfg.mode)

C9_Witness ==
    /\ cfg.mode = "public"
    /\ pc[PublicInterface] = "serving"
    /\ routers = Interfaces
    /\ registered = {PublicInterface}
    /\ Len(mw[AdminInterface]) = 3

\* C10: every interface has at most one bound listener, a task that is in a
\* serve call has exactly one, and no step binds a listener for a task that
\* already has one.
C10_OneListener ==
    \A i \in Interfaces :
        /\ Len(listeners[i]) <= 1
        /\ (pc[i] \in {"bound", "serving"} \/ HasServed(i)) <=> Len(listeners[i]) = 1

C10_Witness ==
    /\ \A i \in Interfaces : pc[i] = "serving"
    /\ listeners[AdminInterface] = <<"UnixSocket">>
    /\ listeners[PublicInterface] = <<"TCP">>

\* C11 as stated: a task whose srv.Shutdown returned an error (drain timeout)
\* still ends as a normal termination: the error never becomes the task's
\* fatal error and never the cause of a process exit.
C11_ShutdownErrorNotFatal ==
    /\ fatalCause # "ShutdownError"
    /\ \A i \in Interfaces : hstate[i] = "err" => pc[i] # "failed"

\* C11, amended: the error of srv.Shutdown is what Graceful returns, and serve
\* hands every error of Graceful to Logger.Fatal: a task whose shutdown timed
\* out never terminates normally, its counter is never decremented, the run
\* function never returns nil, and the process can only end with exit code 1.
C11_ShutdownErrorFatal ==
    \A i \in Interfaces :
        hstate[i] = "err" =>
            /\ pc[i] \in {"shuttingdown", "failed"}
            /\ pc[i] = "failed" => err[i] = "ShutdownError"
            /\ wg >= 1
            /\ runResult # "nil"
            /\ exited => exitCode = 1

C11_Witness ==
    \E i \in Interfaces :
        /\ hstate[i] = "err"
        /\ pc[i] = "failed"
        /\ exited /\ exitCode = 1 /\ fatalCause = "ShutdownError"

\* C12: a task logs the "HTTPS is disabled" warning exactly when it is the
\* Public task, TLS is disabled for it and its listen address is not a unix
\* socket, and it then serves plaintext; the Admin task never logs it, and no
\* task that serves with TLS or on a unix socket address does.
C12_WarningPublicPlainOnly ==
    \A i \in Interfaces :
        /\ ~HasServed(i) => ~warned[i]
        /\ HasServed(i) =>
              (warned[i] <=> /\ i = PublicInterface
                             /\ ~cfg.tlsEnabled[i]
                             /\ ~AddressIsUnixSocket(cfg.address[i]))
        /\ warned[i] => serveMode[i] = "plain" /\ ~tlsConfig[i]

C12_Witness ==
    /\ cfg.address[PublicInterface] = ":4444" /\ ~cfg.tlsEnabled[PublicInterface]
    /\ pc[PublicInterface] = "serving" /\ warned[PublicInterface]
    /\ serveMode[PublicInterface] = "plain"
    /\ pc[AdminInterface] = "serving" /\ serveMode[AdminInterface] = "plain"
    /\ ~warned[AdminInterface]

\* The states of a serving task as the specification names them.
TaskState(p) ==
    CASE p = "notspawned" -> "None"
      [] p = "init" -> "Initializing"
      [] p \in {"tls", "graceful", "start", "bound"} -> "Binding"
      [] p = "serving" -> "Serving"
      [] p = "shuttingdown" -> "ShuttingDown"
      [] p = "failed" -> "BindFailed"
      [] p = "terminated" -> "Terminated"

\* The transitions of the stated state machine.
StatedTransitions ==
    {<<"None", "Initializing">>, <<"Initializing", "Binding">>, <<"Binding", "Binding">>,
     <<"Binding", "Serving">>, <<"Serving", "ShuttingDown">>,
     <<"ShuttingDown", "Terminated">>, <<"Binding", "BindFailed">>}

\* The transitions the code adds: Serve returns ErrServerClosed at once when
\* the signal came before the serve call, Serve fails while serving, and
\* Shutdown returns an error.
FurtherTransitions ==
    {<<"Binding", "ShuttingDown">>, <<"Serving", "BindFailed">>,
     <<"ShuttingDown", "BindFailed">>}

\* Every change of a task's position is one of the given transitions.
Follows(transitions) ==
    \A i \in Interfaces :
        pc'[i] # pc[i] => <<TaskState(pc[i]), TaskState(pc'[i])>> \in transitions

\* The order of the steps of one task: tracing wrap, then certificates, then
\* the listener, then the serve call; shutting down only after a signal.
StepOrder ==
    \A i \in Interfaces :
        /\ (Len(handler[i]) > Len(mw[i])) => pc[i] \notin {"notspawned", "init"}
        /\ (pc[i] \notin {"notspawned", "init"} /\ cfg.tracerLoaded) => handler[i][1] = Mw("trace")
        /\ tlsConfig[i] => pc[i] \notin {"notspawned", "init", "tls"}
        /\ (pc[i] \notin {"notspawned", "init", "tls"} /\ cfg.tlsEnabled[i]) => tlsConfig[i]
        /\ bindAttempts[i] > 0 => pc[i] \notin {"notspawned", "init", "tls", "graceful", "start"}
        /\ HasServed(i) => Len(listeners[i]) = 1
        /\ pc[i] = "shuttingdown" => inShutdown[i] /\ HasServed(i)
        /\ inShutdown[i] => hstate[i] \in {"draining", "ok", "err"}

\* C13 as stated: a task follows only Initializing -> Binding -> Serving ->
\* ShuttingDown -> Terminated or Binding -> BindFailed -> fatal exit.
C13_StatedStateMachine == [][Follows(StatedTransitions)]_vars

\* C13, amended: a task follows only the stated transitions and three more:
\* Binding -> ShuttingDown (the signal came before the serve call, which
\* returns at once), Serving -> failed (Serve returned an error) and
\* ShuttingDown -> failed (Shutdown returned an error), each failure ending
\* in the fatal exit.  The tracing wrap comes before the certificates, the
\* certificates before the listener, the listener before the serve call, and
\* ShuttingDown is entered only after a shutdown signal.
C13_StateMachine ==
    /\ []StepOrder
    /\ [][Follows(StatedTransitions \cup FurtherTransitions)]_vars

C13_Witness ==
    /\ cfg.tracerLoaded
    /\ \A i \in Interfaces : cfg.tlsEnabled[i] /\ tlsConfig[i] /\ pc[i] = "terminated"
    /\ runResult = "nil"

\* C14: the serve mode is raw Serve whenever the listen address is a unix
\* socket (also with TLS enabled and certificates obtained), otherwise ServeTLS
\* whenever a TLS context exists (also on the overlay-tunnel listener),
\* otherwise plain Serve; a task enters one mode and never another.
C14_ServeModePriority ==
    /\ [](\A i \in Interfaces :
            /\ HasServed(i) =>
                  /\ AddressIsUnixSocket(cfg.address[i]) => serveMode[i] = "raw"
                  /\ (~AddressIsUnixSocket(cfg.address[i]) /\ tlsConfig[i]) =>
                        serveMode[i] = "tls"
                  /\ (~AddressIsUnixSocket(cfg.address[i]) /\ ~tlsConfig[i]) =>
                        serveMode[i] = "plain"
            /\ pc[i] \in {"serving", "shuttingdown", "terminated"} => HasServed(i))
    /\ [][\A i \in Interfaces : HasServed(i) => serveMode'[i] = serveMode[i]]_vars

C14_Witness ==
    /\ AddressIsUnixSocket(cfg.address[PublicInterface])
    /\ tlsConfig[PublicInterface] /\ serveMode[PublicInterface] = "raw"
    /\ ~AddressIsUnixSocket(cfg.address[AdminInterface])
    /\ listeners[AdminInterface] = <<"OverlayTunnel">>
    /\ tlsConfig[AdminInterface] /\ serveMode[AdminInterface] = "tls"

StartupErrors == {"BindError", "PermissionError", "ConfigurationError", "TransportError"}

\* C15: a serving task attempts to bind at most once; after a bind,
\* permission, configuration or tunnel failure it has no listener, never
\* attempts again, never enters a serve call, and its only next step is the
\* fatal exit.
C15_NoBindRetry ==
    /\ [](\A i \in Interfaces :
            /\ bindAttempts[i] <= 1
            /\ err[i] \in StartupErrors =>
                  /\ pc[i] = "failed"
                  /\ listeners[i] = <<>>
                  /\ ~HasServed(i)
            /\ fatalCause \in StartupErrors => exited /\ exitCode = 1)
    /\ [][\A i \in Interfaces :
            err[i] \in StartupErrors =>
                /\ pc'[i] = pc[i] /\ err'[i] = err[i]
                /\ bindAttempts'[i] = bindAttempts[i] /\ listeners'[i] = listeners[i]
                /\ serveMode'[i] = serveMode[i]
         ]_vars

C15_Witness ==
    \E i \in Interfaces :
        /\ err[i] = "PermissionError" /\ bindAttempts[i] = 1
        /\ exited /\ exitCode = 1 /\ fatalCause = "PermissionError"

\* Task i fails or the process exits on a failed task i in this step.
FailureStep(i) ==
    \/ pc[i] # "failed" /\ pc'[i] = "failed"
    \/ pc[i] = "failed" /\ ~exited /\ exited'

\* C16: a task that fails does not signal its sibling: the step in which it
\* fails and the step of its fatal exit leave the sibling's position, its
\* signal goroutine and its server untouched; a server is shut down only by
\* its own task's signal goroutine, and the exit after a failure has code 1.
C16_FailureDoesNotStopSibling ==
    /\ [](\A j \in Interfaces :
            /\ inShutdown[j] => hstate[j] \in {"draining", "ok", "err"}
            /\ pc[j] = "shuttingdown" => inShutdown[j])
    /\ []((exited /\ fatalCause # "") => exitCode = 1)
    /\ [][\A i \in Interfaces : FailureStep(i) =>
            \A j \in Interfaces \ {i} :
                /\ pc'[j] = pc[j]
                /\ inShutdown'[j] = inShutdown[j]
                /\ hstate'[j] = hstate[j]
                /\ listeners'[j] = listeners[j]]_vars

C16_Witness ==
    /\ cfg.mode = "all"
    /\ pc[AdminInterface] = "failed" /\ err[AdminInterface] = "BindError"
    /\ exited /\ exitCode = 1 /\ fatalCause = "BindError"
    /\ pc[PublicInterface] = "serving"
    /\ ~inShutdown[PublicInterface] /\ hstate[PublicInterface] = "waiting"

\* C17: the pipeline of every served interface contains a CORS stage.
C17_CorsStageInPipeline ==
    \A i \in Interfaces :
        Spawned(i) => \E k \in 1..Len(handler[i]) : handler[i][k] = Mw("cors")

\* C18: once a task is past its initialisation, the handler of its server is
\* the composed pipeline wrapped in the tracing middleware iff the tracer is
\* loaded; the tracing middleware is then the outermost layer and the whole
\* pipeline is inside it.  Before that step the handler is the bare pipeline.
C18_TracingIffLoaded ==
    \A i \in Interfaces :
        /\ pc[i] = "init" => handler[i] = mw[i]
        /\ pc[i] \notin {"notspawned", "init"} =>
              /\ Positions(handler[i], Mw("trace")) = (IF cfg.tracerLoaded THEN {1} ELSE {})
              /\ cfg.tracerLoaded =>
                    /\ Len(handler[i]) = Len(mw[i]) + 1
                    /\ SubSeq(handler[i], 2, Len(handler[i])) = mw[i]
              /\ ~cfg.tracerLoaded => handler[i] = mw[i]

C18_Witness ==
    /\ cfg.tracerLoaded
    /\ pc[AdminInterface] = "serving"
    /\ handler[AdminInterface][1] = Mw("trace")
    /\ handler[AdminInterface][2] = Mw("accesslog")
    /\ handler[AdminInterface][Len(handler[AdminInterface])] = Mw("router")

\* The number of tasks a run mode spawns.
TaskCount == IF cfg.mode = "all" THEN 2 ELSE 1

\* The tasks whose serve function has returned normally.
Returned == {i \in Interfaces : pc[i] = "terminated" /\ err[i] = ""}

\* C20: the completion counter is set to the number of tasks the mode spawns
\* (1, 1, 2) and is that number less the tasks that have returned normally: a
\* task decrements it once, on its normal return only, never on the fatal
\* path; it is never negative, is zero only when every task has returned, and
\* the run function returns only at zero.
C20_CompletionCounter ==
    /\ wg >= 0
    /\ cpc \in {"new", "dsn", "setup", "register", "wgadd"} => wg = 0 /\ Returned = {}
    /\ cpc \in {"spawn1", "spawn2", "wait"} \/ runResult = "nil" =>
          /\ wg = TaskCount - Cardinality(Returned)
          /\ wg = 0 => Returned = Served(cfg.mode)
    /\ \A i \in Interfaces :
          /\ pc[i] = "terminated" => err[i] = ""
          /\ (Spawned(i) /\ pc[i] # "terminated") => wg >= 1
    /\ runResult = "nil" => wg = 0

C20_Witness ==
    /\ cfg.mode = "all"
    /\ pc[PublicInterface] = "terminated"
    /\ pc[AdminInterface] = "failed"
    /\ wg = 1
    /\ exited /\ exitCode = 1

\* Every task of the run mode is serving and the shutdown signal has been
\* delivered to each.
AllServingSignalled ==
    /\ cpc = "wait"
    /\ \A i \in Served(cfg.mode) : pc[i] = "serving" /\ hstate[i] = "signalled"

\* Every task has terminated and the run function has returned nil.
AllTerminatedSuccess ==
    /\ \A i \in Served(cfg.mode) : pc[i] = "terminated"
    /\ runResult = "nil" /\ exited /\ exitCode = 0

\* The drain of some task did not complete within the timeout.
DrainTimedOut == \E i \in Interfaces : hstate[i] = "err"

\* The serve call of some task returned an error of its listener.
ServeFailed == \E i \in Interfaces : err[i] = "ServeError"

====
